---- MODULE Spec2Model ----
(***************************************************************************)
(* Model of the Gigabyte AORUS Waterforce hwmon driver (src/waterforce.c). *)
(*                                                                         *)
(* Processes: the probe thread (Probe), the hwmon caller threads           *)
(* (Threads) that enter waterforce_read / waterforce_write, the HID input  *)
(* callback that runs waterforce_raw_event, and the clock (jiffies).       *)
(* A step of a process is one access to shared state (the completion, the  *)
(* mutex-protected buffer, the sensor fields, ->updated), so that every    *)
(* interleaving the kernel can produce between two such accesses is a      *)
(* behaviour of the model.                                                 *)
(*                                                                         *)
(* Offsets are the C (0-based) offsets; At(s, off) reads byte off of s.    *)
(* jiffies is an unsigned long; the model's clock does not wrap.           *)
(***************************************************************************)
EXTENDS Integers, Sequences, FiniteSets, TLC

\* ------------------------------------------------------------------ bounds
\* Clock ticks per second (kernel configuration).
HZ == 1
\* Number of clock ticks the model lets pass after probe.
MaxTicks == 3
\* Number of hwmon calls (reads and writes together) the callers make.
MaxCalls == 2
\* Number of inbound reports the device delivers.
MaxReports == 2

\* --------------------------------------------------------- program constants
STATUS_VALIDITY == 2
MAX_REPORT_LENGTH == 6144
FIRMWARE_F14_VER == 14
MIN_FAN_RPM == 750
LOWER_MAX_RPM == 2800
DEFAULT_MAX_RPM == 3200
USB_PRODUCT_ID_WATERFORCE_1 == 31309
USB_PRODUCT_ID_WATERFORCE_2 == 31314
USB_PRODUCT_ID_WATERFORCE_3 == 31315

WATERFORCE_TEMP_SENSOR == 13
WATERFORCE_FAN_SPEED == 2
WATERFORCE_PUMP_SPEED == 5
WATERFORCE_FAN_DUTY == 8
WATERFORCE_PUMP_DUTY == 9

FIRMWARE_VER_START_OFFSET_1 == 2
FIRMWARE_VER_START_OFFSET_2 == 3
SET_CPU_TEMP_CMD_OFFSET == 3
SET_RPM_SPEED_CHANNEL_OFFSET == 2
SET_RPM_SPEED_CHANNEL_FAN == 257
SET_RPM_SPEED_CHANNEL_PUMP == 1026

GET_STATUS_CMD_LENGTH == 2
GET_FIRMWARE_VER_CMD_LENGTH == 2
SET_CPU_TEMP_CMD_LENGTH == 9
SET_RPM_SPEED_OFFSETS_LENGTH == 4
SET_RPM_SPEED_CMD_LENGTH == 16

get_status_cmd == <<153, 218>>
get_firmware_ver_cmd == <<153, 214>>
set_cpu_temp_cmd_template == <<153, 224, 0, 0, 32, 5, 5, 16, 48>>
speed_cmd_offsets == <<5, 8, 11, 14>>
set_rpm_speed_cmd_template ==
  <<153, 230, 0, 0, 0, 0, 0, 30, 0, 0, 50, 0, 0, 65, 0, 0>>

\* return values: 0 and the errno values the driver returns
OK == "0"
EINVAL == "-EINVAL"
ENODATA == "-ENODATA"
EIO == "-EIO"

\* ------------------------------------------------------------ byte helpers
At(s, off) == s[off + 1]

\* s with byte off replaced by b (b stored into a u8)
Put(s, off, b) == [s EXCEPT ![off + 1] = b % 256]

\* memcpy(dst, src, n) on the first n bytes
Memcpy(dst, src, n) ==
  [i \in 1..Len(dst) |-> IF i <= n THEN src[i] ELSE dst[i]]

\* mutant: the bytes in little-endian order
put_unaligned_be16_swapped(val, s, off) ==
  Put(Put(s, off, (val % 65536) % 256), off + 1, (val % 65536) \div 256)

\* put_unaligned_be16(val, p): val is truncated to u16, high byte first
put_unaligned_be16(val, s, off) ==
  Put(Put(s, off, (val % 65536) \div 256), off + 1, (val % 65536) % 256)

\* the 16-bit word at off read high byte first
get_unaligned_be16(s, off) == 256 * At(s, off) + At(s, off + 1)

\* get_unaligned_le16(p): low byte first
get_unaligned_le16(s, off) == At(s, off) + 256 * At(s, off + 1)

\* DIV_ROUND_CLOSEST(x, d) for non-negative x and positive d
DIV_ROUND_CLOSEST(x, d) == (x + d \div 2) \div d

\* time_after(a, b): a is later than b
time_after(a, b) == a > b

\* msecs_to_jiffies(m): rounds up to whole ticks
msecs_to_jiffies(m) == (m * HZ + 999) \div 1000

\* ------------------------------------------------------ the shared buffer
\* priv->buffer holds MAX_REPORT_LENGTH bytes.  No command is longer than
\* SET_RPM_SPEED_CMD_LENGTH, so only memset ever writes the bytes behind
\* that prefix: the buffer is kept as the prefix (head) and the one byte
\* value that fills every position from SET_RPM_SPEED_CMD_LENGTH up to
\* MAX_REPORT_LENGTH - 1 (fill).
HeadLen == SET_RPM_SPEED_CMD_LENGTH

Memset(c) == [head |-> [i \in 1..HeadLen |-> c], fill |-> c]

\* ------------------------------------------------------------- processes
Probe == "probe"
Threads == {"t1", "t2"}
Procs == {Probe} \cup Threads
Free == "free"

\* waterforce_table: the products the driver binds to
waterforce_table ==
  {USB_PRODUCT_ID_WATERFORCE_1, USB_PRODUCT_ID_WATERFORCE_2,
   USB_PRODUCT_ID_WATERFORCE_3}

\* Sensors a read can ask for: <<type, channel>> (waterforce_is_visible
\* makes temp channel 1 write-only)
Sensors == {<<"temp", 0>>, <<"fan", 1>>, <<"pwm", 0>>}

\* Values the callers write
TempInputs == {-1, 0, 37, 255, 256}
RpmInputs == {749, 750, 2800, 2801, 3200, 3201}
Channels == {0, 1}

\* Inbound reports the device (or anything else on the bus) delivers:
\* bytes 0..13
MkReport(b0, b1, b2, b3, b5, b6, b8, b9, b13) ==
  <<b0, b1, b2, b3, 0, b5, b6, 0, b8, b9, 0, 0, 0, b13>>

StatusReport1 == MkReport(153, 218, 232, 3, 176, 4, 50, 60, 30)
StatusReport2 == MkReport(153, 218, 2, 1, 4, 3, 100, 33, 255)
FirmwareReport14 == MkReport(153, 214, 1, 4, 0, 0, 0, 0, 0)
FirmwareReport13 == MkReport(153, 214, 1, 3, 7, 7, 7, 7, 7)
OtherReport == MkReport(153, 0, 9, 9, 9, 9, 9, 9, 9)

\* the reports of the sensor-path specification
Reports == {StatusReport1, FirmwareReport14, OtherReport}

\* the reports of the write-path specification
WriteReports == {FirmwareReport14, FirmwareReport13}

VARIABLES
  jiffies,                 \* the kernel clock
  product,                 \* hdev->product, from the time probe reads it
  pc,                      \* per process: the next statement
  op,                      \* per process: "fw", "read", "temp", "rpm"
  val,                     \* per process: the value argument
  chan,                    \* per process: the channel argument
  cmd,                     \* per process: the command passed to write_expanded
  ret,                     \* per process: the value the last call returned
  wstart,                  \* per process: when its wait started
  buffer,                  \* priv->buffer
  buffer_lock,             \* priv->buffer_lock: owner or Free
  status_report_received,  \* completion: its done counter
  fw_version_processed,    \* completion: its done counter
  temp_input, speed_input, duty_input,
  firmware_version, max_speed_rpm, updated,
  ev_pc,                   \* raw_event: "idle", or "signalled" before line 363
  ev_data,                 \* the report last passed to raw_event
  ev_size,                 \* its size argument
  ncalls, nreports,        \* counters of the bounds
  hist                     \* per process: what its current call has seen

vars ==
  <<jiffies, product, pc, op, val, chan, cmd, ret, wstart, buffer, buffer_lock,
    status_report_received, fw_version_processed, temp_input, speed_input,
    duty_input, firmware_version, max_speed_rpm, updated, ev_pc, ev_data,
    ev_size, ncalls, nreports, hist>>

sensorVars == <<temp_input, speed_input, duty_input>>
Snapshot == <<temp_input, speed_input, duty_input>>

NoReport == <<>>
NoProduct == 0
NoOut == <<>>

\* what a call records about itself; every field is history only
FreshHist ==
  [nwr |-> 0,          \* reports it handed to the transport
   nre |-> 0,          \* reinit_completion calls it made
   age0 |-> 0,         \* jiffies - updated when it was entered
   how |-> "none",     \* how it ended: "fresh", "woken", "timeout", "interrupted",
                       \* "eio", "einval", "sent"
   stamped |-> TRUE,   \* woken: was ->updated of the waking report already written
   prevTO |-> FALSE,   \* the caller's previous read timed out
   prevINT |-> FALSE,  \* the caller's previous read was interrupted
   overlap |-> FALSE,  \* another status request was outstanding during this one
   sig |-> FALSE,      \* complete(status) ran after this call's reinit_completion
   early |-> FALSE,    \* ... and did so before this call reached its wait
   lim |-> 0,          \* max_speed_rpm as the range check read it
   out |-> NoOut]      \* <<sensor, value>> a read returned

InitialJiffies == STATUS_VALIDITY * HZ

Init ==
  /\ jiffies = InitialJiffies
  /\ product = NoProduct
  /\ pc = [p \in Procs |-> IF p = Probe THEN "lock" ELSE "idle"]
  /\ op = [p \in Procs |-> IF p = Probe THEN "fw" ELSE "none"]
  /\ val = [p \in Procs |-> 0]
  /\ chan = [p \in Procs |-> 0]
  /\ cmd = [p \in Procs |-> IF p = Probe THEN get_firmware_ver_cmd ELSE <<>>]
  /\ ret = [p \in Procs |-> OK]
  /\ wstart = [p \in Procs |-> 0]
  /\ buffer = Memset(0)
  /\ buffer_lock = Free
  /\ status_report_received = 0
  /\ fw_version_processed = 0
  /\ temp_input = 0
  /\ speed_input = <<0, 0>>
  /\ duty_input = <<0, 0>>
  /\ firmware_version = 0
  /\ max_speed_rpm = 0
  /\ updated = jiffies - STATUS_VALIDITY * HZ
  /\ ev_pc = "idle"
  /\ ev_data = NoReport
  /\ ev_size = 0
  /\ ncalls = 0
  /\ nreports = 0
  /\ hist = [p \in Procs |-> FreshHist]

\* --------------------------------------------------------- pure code pieces
\* mutant: the window taken one second too long
CacheStale_late(now, upd) == time_after(now, upd + STATUS_VALIDITY * HZ + HZ)

\* mutant: the window left out
CacheStale_no_window(now, upd) == time_after(now, upd)

\* waterforce_read, line 179: is the cached status too old
CacheStale(now, upd) == time_after(now, upd + STATUS_VALIDITY * HZ)

\* waterforce_read, lines 186-206: the value of one sensor
ReadValue(s) ==
  CASE s[1] = "temp" -> temp_input
    [] s[1] = "fan" -> speed_input[s[2] + 1]
    [] s[1] = "pwm" -> DIV_ROUND_CLOSEST(duty_input[s[2] + 1] * 255, 100)

\* mutant: the upper limit off by one
CpuTempInvalid_off_by_one(v) == v < 0 \/ v > 256

\* waterforce_set_cpu_temp, line 247
CpuTempInvalid(v) == v < 0 \/ v > 255

\* waterforce_set_cpu_temp, lines 250-251
CpuTempCmd(v) ==
  Put(Memcpy([i \in 1..SET_CPU_TEMP_CMD_LENGTH |-> 0],
             set_cpu_temp_cmd_template, SET_CPU_TEMP_CMD_LENGTH),
      SET_CPU_TEMP_CMD_OFFSET, v)

\* mutant: the test against max_speed_rpm left out
FanSpeedInvalid_min_only(v, max) == v < MIN_FAN_RPM

\* waterforce_set_fan_speed, line 264
FanSpeedInvalid(v, max) == v < MIN_FAN_RPM \/ v > max

\* waterforce_set_fan_speed, lines 273-274: the loop over speed_cmd_offsets
RECURSIVE PutSpeeds(_, _, _)
PutSpeeds(c, v, i) ==
  IF i < SET_RPM_SPEED_OFFSETS_LENGTH
  THEN PutSpeeds(put_unaligned_be16(v, c, speed_cmd_offsets[i + 1]), v, i + 1)
  ELSE c

\* waterforce_set_fan_speed, lines 267-274
FanSpeedCmd(ch, v) ==
  LET c0 == Memcpy([i \in 1..SET_RPM_SPEED_CMD_LENGTH |-> 0],
                   set_rpm_speed_cmd_template, SET_RPM_SPEED_CMD_LENGTH)
      c1 == Put(c0, SET_RPM_SPEED_CHANNEL_OFFSET + 1,
                IF ch = 0 THEN SET_RPM_SPEED_CHANNEL_FAN % 256
                          ELSE SET_RPM_SPEED_CHANNEL_PUMP % 256)
      c2 == Put(c1, SET_RPM_SPEED_CHANNEL_OFFSET,
                IF ch = 0 THEN SET_RPM_SPEED_CHANNEL_FAN \div 256
                          ELSE SET_RPM_SPEED_CHANNEL_PUMP \div 256)
  IN PutSpeeds(c2, v, 0)

\* mutant: only the first opcode byte compared
IsFirmwareReport_first_byte(d) == At(d, 0) = get_firmware_ver_cmd[1]

\* waterforce_raw_event, line 341
IsFirmwareReport(d) ==
  At(d, 0) = get_firmware_ver_cmd[1] /\ At(d, 1) = get_firmware_ver_cmd[2]

\* mutant: && in place of ||
IsStatusReport_and(d) ==
  ~(At(d, 0) # get_status_cmd[1] /\ At(d, 1) # get_status_cmd[2])

\* waterforce_raw_event, line 349 (negated: the report goes on to be decoded)
IsStatusReport(d) ==
  ~(At(d, 0) # get_status_cmd[1] \/ At(d, 1) # get_status_cmd[2])

\* mutant: the two version bytes taken in the other order
FirmwareVersion_swapped(d) ==
  At(d, FIRMWARE_VER_START_OFFSET_2) * 10 + At(d, FIRMWARE_VER_START_OFFSET_1)

\* waterforce_raw_event, lines 343-344
FirmwareVersion(d) ==
  At(d, FIRMWARE_VER_START_OFFSET_1) * 10 + At(d, FIRMWARE_VER_START_OFFSET_2)

\* waterforce_raw_event, lines 355-359
DecodeTemp(d) == At(d, WATERFORCE_TEMP_SENSOR) * 1000
DecodeSpeed(d) ==
  <<get_unaligned_le16(d, WATERFORCE_FAN_SPEED),
    get_unaligned_le16(d, WATERFORCE_PUMP_SPEED)>>
DecodeDuty(d) == <<At(d, WATERFORCE_FAN_DUTY), At(d, WATERFORCE_PUMP_DUTY)>>

\* mutant: || in place of && in the test of line 463
MaxSpeedRpm_or(ver, prod) ==
  IF ver # FIRMWARE_F14_VER \/ prod # USB_PRODUCT_ID_WATERFORCE_3
  THEN LOWER_MAX_RPM
  ELSE DEFAULT_MAX_RPM

\* waterforce_probe, lines 463-467
MaxSpeedRpm(ver, prod) ==
  IF ver # FIRMWARE_F14_VER /\ prod # USB_PRODUCT_ID_WATERFORCE_3
  THEN LOWER_MAX_RPM
  ELSE DEFAULT_MAX_RPM

\* the wait timeout of lines 123-124 and 235-236
WaitTimeout == msecs_to_jiffies(STATUS_VALIDITY * 1000)

\* the cmd_length a caller passes to waterforce_write_expanded (lines 119,
\* 231, 252, 275)
CmdLength(o) ==
  CASE o = "read" -> GET_STATUS_CMD_LENGTH
    [] o = "fw" -> GET_FIRMWARE_VER_CMD_LENGTH
    [] o = "temp" -> SET_CPU_TEMP_CMD_LENGTH
    [] o = "rpm" -> SET_RPM_SPEED_CMD_LENGTH

\* the done counter of the completion a process waits on
Done(p) == IF op[p] = "fw" THEN fw_version_processed ELSE status_report_received

\* ----------------------------------------------------------- bookkeeping
\* After a failed probe the driver core releases priv; the model follows a
\* device only while priv exists.
Alive == pc[Probe] # "failed"

\* p has an outstanding status request: past reinit_completion, not yet
\* out of wait_for_completion_timeout
InStatus(p) == op[p] = "read" /\ pc[p] \in {"lock", "memcpy", "output", "wait"}

\* ------------------------------------------------------------- the callers
\* waterforce_read, lines 173-184: entry and the staleness test
waterforce_read(t) ==
  /\ Alive
  /\ pc[t] = "idle"
  /\ ncalls < MaxCalls
  /\ ncalls' = ncalls + 1
  /\ op' = [op EXCEPT ![t] = "read"]
  /\ val' = [val EXCEPT ![t] = 0]
  /\ chan' = [chan EXCEPT ![t] = 0]
  /\ pc' = [pc EXCEPT ![t] =
              IF CacheStale(jiffies, updated) THEN "get_status" ELSE "load"]
  /\ hist' = [hist EXCEPT ![t] =
                [FreshHist EXCEPT
                   !.age0 = jiffies - updated,
                   !.prevTO = hist[t].prevTO,
                   !.prevINT = hist[t].prevINT,
                   !.how = IF CacheStale(jiffies, updated) THEN "none" ELSE "fresh"]]
  /\ UNCHANGED <<jiffies, product, cmd, ret, wstart, buffer, buffer_lock,
                 status_report_received, fw_version_processed, sensorVars,
                 firmware_version, max_speed_rpm, updated, ev_pc, ev_data, ev_size, nreports>>

\* waterforce_get_status, lines 116-119: reinit_completion, then the call of
\* waterforce_write_expanded with get_status_cmd
waterforce_get_status(t) ==
  /\ Alive
  /\ pc[t] = "get_status"
  /\ status_report_received' = 0
  /\ cmd' = [cmd EXCEPT ![t] = get_status_cmd]
  /\ pc' = [pc EXCEPT ![t] = "lock"]
  /\ hist' = [p \in Procs |->
                IF p = t
                THEN [hist[p] EXCEPT !.nre = @ + 1,
                                     !.sig = FALSE,
                                     !.early = FALSE,
                                     !.overlap = \E u \in Threads \ {t} : InStatus(u)]
                ELSE IF InStatus(p) THEN [hist[p] EXCEPT !.overlap = TRUE]
                ELSE hist[p]]
  /\ UNCHANGED <<jiffies, product, op, val, chan, ret, wstart, buffer,
                 buffer_lock, fw_version_processed, sensorVars,
                 firmware_version, max_speed_rpm, updated, ev_pc, ev_data, ev_size,
                 ncalls, nreports>>

\* mutant: no mutual exclusion
MutexFree_unlocked(p) == TRUE

\* mutex_lock(&priv->buffer_lock) succeeds for p
MutexFree(p) == buffer_lock = Free

\* waterforce_write_expanded, lines 102-104: mutex_lock and memset
write_expanded_lock(p) ==
  /\ Alive
  /\ pc[p] = "lock"
  /\ MutexFree(p)
  /\ buffer_lock' = p
  /\ buffer' = Memset(0)
  /\ pc' = [pc EXCEPT ![p] = "memcpy"]
  /\ UNCHANGED <<jiffies, product, op, val, chan, cmd, ret, wstart,
                 status_report_received, fw_version_processed, sensorVars,
                 firmware_version, max_speed_rpm, updated, ev_pc, ev_data, ev_size,
                 ncalls, nreports, hist>>

\* waterforce_write_expanded, line 105: memcpy(priv->buffer, cmd, cmd_length)
write_expanded_memcpy(p) ==
  /\ Alive
  /\ pc[p] = "memcpy"
  /\ buffer' = [buffer EXCEPT !.head = Memcpy(@, cmd[p], CmdLength(op[p]))]
  /\ pc' = [pc EXCEPT ![p] = "output"]
  /\ UNCHANGED <<jiffies, product, op, val, chan, cmd, ret, wstart,
                 buffer_lock, status_report_received, fw_version_processed,
                 sensorVars, firmware_version, max_speed_rpm, updated, ev_pc,
                 ev_data, ev_size, ncalls, nreports, hist>>

\* the length waterforce_write_expanded passes to hid_hw_output_report
OutputLength(cmd_length) == MAX_REPORT_LENGTH

\* mutant: the test of the wait's result inverted
get_status_result_inverted(woken) == IF woken THEN ENODATA ELSE OK

\* waterforce_get_status, lines 123-127: the value returned after the wait;
\* woken is wait_for_completion_timeout's result being non-zero
get_status_result(woken) == IF ~woken THEN ENODATA ELSE OK

\* waterforce_read, lines 182-183: what a failed refresh returns
read_result(r) == IF r # OK THEN ENODATA ELSE OK

\* mutant: return on a failed write without mutex_unlock
mutex_unlock_on_success(p, ok) == IF ok THEN Free ELSE p

\* waterforce_write_expanded, line 108: the owner of buffer_lock after
\* mutex_unlock, which follows hid_hw_output_report whatever it returned
mutex_unlock(p, ok) == Free

\* waterforce_write_expanded, lines 106-109: hid_hw_output_report (ok: it
\* succeeded), mutex_unlock and return; then the caller up to its next
\* access to shared state:
\*   waterforce_get_status 120-123, waterforce_read 182-183,
\*   waterforce_get_fw_ver 232-235, waterforce_probe 457-459,
\*   waterforce_set_cpu_temp 253-256, waterforce_set_fan_speed 276-279
write_expanded_output(p, ok) ==
  /\ Alive
  /\ pc[p] = "output"
  /\ buffer_lock' = mutex_unlock(p, ok)
  /\ IF ok /\ op[p] \in {"read", "fw"}
     THEN /\ pc' = [pc EXCEPT ![p] = "wait"]
          /\ wstart' = [wstart EXCEPT ![p] = jiffies]
          /\ ret' = ret
          /\ hist' = [hist EXCEPT ![p].nwr = @ + 1]
     ELSE /\ pc' = [pc EXCEPT ![p] = IF p = Probe THEN "failed" ELSE "ret"]
          /\ wstart' = wstart
          /\ ret' = [ret EXCEPT ![p] =
                       IF ok THEN OK
                       ELSE IF op[p] = "read" THEN read_result(EIO)
                       ELSE EIO]
          /\ hist' = [hist EXCEPT ![p].nwr = @ + 1,
                                  ![p].how = IF ok THEN "sent" ELSE "eio"]
  /\ UNCHANGED <<jiffies, product, op, val, chan, cmd, buffer,
                 status_report_received, fw_version_processed, sensorVars,
                 firmware_version, max_speed_rpm, updated, ev_pc, ev_data, ev_size,
                 ncalls, nreports>>

\* wait_for_completion_timeout returns non-zero (lines 123 and 235): the
\* completion is done, the waiter takes it
wait_done(p) ==
  /\ Alive
  /\ pc[p] = "wait"
  /\ Done(p) > 0
  /\ IF p = Probe
     THEN /\ fw_version_processed' = fw_version_processed - 1
          /\ UNCHANGED status_report_received
     ELSE /\ status_report_received' = status_report_received - 1
          /\ UNCHANGED fw_version_processed
  /\ pc' = [pc EXCEPT ![p] =
              IF get_status_result(TRUE) # OK THEN (IF p = Probe THEN "failed" ELSE "ret")
              ELSE IF p = Probe THEN "caps" ELSE "load"]
  /\ ret' = [ret EXCEPT ![p] =
               IF get_status_result(TRUE) # OK
               THEN (IF p = Probe THEN get_status_result(TRUE)
                     ELSE read_result(get_status_result(TRUE)))
               ELSE @]
  /\ wstart' = [wstart EXCEPT ![p] = 0]
  /\ hist' = [hist EXCEPT ![p].how = "woken",
                          ![p].stamped = (ev_pc # "signalled")]
  /\ UNCHANGED <<jiffies, product, op, val, chan, cmd, buffer,
                 buffer_lock, sensorVars, firmware_version, max_speed_rpm,
                 updated, ev_pc, ev_data, ev_size, ncalls, nreports>>

\* wait_for_completion_timeout returns 0 (lines 123-125 and 235-237): the
\* timeout has passed and the completion is not done
wait_timeout(p) ==
  /\ Alive
  /\ pc[p] = "wait"
  /\ Done(p) = 0
  /\ jiffies - wstart[p] >= WaitTimeout
  /\ pc' = [pc EXCEPT ![p] =
              IF get_status_result(FALSE) = OK THEN (IF p = Probe THEN "caps" ELSE "load")
              ELSE IF p = Probe THEN "failed" ELSE "ret"]
  /\ ret' = [ret EXCEPT ![p] =
               IF get_status_result(FALSE) = OK THEN @
               ELSE IF p = Probe THEN get_status_result(FALSE)
               ELSE read_result(get_status_result(FALSE))]
  /\ wstart' = [wstart EXCEPT ![p] = 0]
  /\ hist' = [hist EXCEPT ![p].how = "timeout"]
  /\ UNCHANGED <<jiffies, product, op, val, chan, cmd, buffer,
                 buffer_lock, status_report_received, fw_version_processed,
                 sensorVars, firmware_version, max_speed_rpm, updated, ev_pc,
                 ev_data, ev_size, ncalls, nreports>>

\* mutant: the result tested as in waterforce.c (!wait...), so that a
\* negative result counts as woken
wait_interruptible_result_zero(r) == IF r = 0 THEN ENODATA ELSE OK

\* gigabyte_waterforce.c, waterforce_get_status, lines 93-97: the value
\* returned after wait_for_completion_interruptible_timeout returned r
wait_interruptible_result(r) == IF r <= 0 THEN ENODATA ELSE OK

\* gigabyte_waterforce.c, lines 93-95: a signal is pending for the waiting
\* reader and the completion is not done:
\* wait_for_completion_interruptible_timeout returns -ERESTARTSYS (-512)
\* and consumes nothing
wait_interrupted(t) ==
  /\ Alive
  /\ pc[t] = "wait"
  /\ op[t] = "read"
  /\ Done(t) = 0
  /\ pc' = [pc EXCEPT ![t] =
              IF wait_interruptible_result(-512) = OK THEN "load" ELSE "ret"]
  /\ ret' = [ret EXCEPT ![t] =
               IF wait_interruptible_result(-512) = OK THEN @
               ELSE read_result(wait_interruptible_result(-512))]
  /\ wstart' = [wstart EXCEPT ![t] = 0]
  /\ hist' = [hist EXCEPT ![t].how = "interrupted"]
  /\ UNCHANGED <<jiffies, product, op, val, chan, cmd, buffer,
                 buffer_lock, status_report_received, fw_version_processed,
                 sensorVars, firmware_version, max_speed_rpm, updated, ev_pc,
                 ev_data, ev_size, ncalls, nreports>>

\* waterforce_read, lines 186-206: load the value of sensor s and return 0
waterforce_read_value(t, s) ==
  /\ Alive
  /\ pc[t] = "load"
  /\ pc' = [pc EXCEPT ![t] = "ret"]
  /\ ret' = [ret EXCEPT ![t] = OK]
  /\ hist' = [hist EXCEPT ![t].out = <<s, ReadValue(s)>>]
  /\ UNCHANGED <<jiffies, product, op, val, chan, cmd, wstart, buffer,
                 buffer_lock, status_report_received, fw_version_processed,
                 sensorVars, firmware_version, max_speed_rpm, updated, ev_pc,
                 ev_data, ev_size, ncalls, nreports>>

\* waterforce_set_cpu_temp, lines 242-252 (through waterforce_write 288-291)
waterforce_set_cpu_temp(t, v) ==
  /\ Alive
  /\ pc[t] = "idle"
  /\ ncalls < MaxCalls
  /\ ncalls' = ncalls + 1
  /\ op' = [op EXCEPT ![t] = "temp"]
  /\ val' = [val EXCEPT ![t] = v]
  /\ chan' = [chan EXCEPT ![t] = 1]
  /\ IF CpuTempInvalid(v)
     THEN /\ ret' = [ret EXCEPT ![t] = EINVAL]
          /\ pc' = [pc EXCEPT ![t] = "ret"]
          /\ hist' = [hist EXCEPT ![t] = [FreshHist EXCEPT !.how = "einval"]]
          /\ UNCHANGED cmd
     ELSE /\ cmd' = [cmd EXCEPT ![t] = CpuTempCmd(v)]
          /\ pc' = [pc EXCEPT ![t] = "lock"]
          /\ hist' = [hist EXCEPT ![t] = FreshHist]
          /\ UNCHANGED ret
  /\ UNCHANGED <<jiffies, product, wstart, buffer, buffer_lock,
                 status_report_received, fw_version_processed, sensorVars,
                 firmware_version, max_speed_rpm, updated, ev_pc, ev_data, ev_size, nreports>>

\* waterforce_set_fan_speed, lines 259-275 (through waterforce_write 296-299)
waterforce_set_fan_speed(t, ch, v) ==
  /\ Alive
  /\ pc[t] = "idle"
  /\ ncalls < MaxCalls
  /\ ncalls' = ncalls + 1
  /\ op' = [op EXCEPT ![t] = "rpm"]
  /\ val' = [val EXCEPT ![t] = v]
  /\ chan' = [chan EXCEPT ![t] = ch]
  /\ IF FanSpeedInvalid(v, max_speed_rpm)
     THEN /\ ret' = [ret EXCEPT ![t] = EINVAL]
          /\ pc' = [pc EXCEPT ![t] = "ret"]
          /\ hist' = [hist EXCEPT ![t] =
                        [FreshHist EXCEPT !.how = "einval", !.lim = max_speed_rpm]]
          /\ UNCHANGED cmd
     ELSE /\ cmd' = [cmd EXCEPT ![t] = FanSpeedCmd(ch, v)]
          /\ pc' = [pc EXCEPT ![t] = "lock"]
          /\ hist' = [hist EXCEPT ![t] = [FreshHist EXCEPT !.lim = max_speed_rpm]]
          /\ UNCHANGED ret
  /\ UNCHANGED <<jiffies, product, wstart, buffer, buffer_lock,
                 status_report_received, fw_version_processed, sensorVars,
                 firmware_version, max_speed_rpm, updated, ev_pc, ev_data, ev_size, nreports>>

\* the call is over: its frame (arguments, command, return value) is gone;
\* what stays is whether the caller's last read timed out
call_return(t) ==
  /\ Alive
  /\ pc[t] = "ret"
  /\ pc' = [pc EXCEPT ![t] = "idle"]
  /\ op' = [op EXCEPT ![t] = "none"]
  /\ val' = [val EXCEPT ![t] = 0]
  /\ chan' = [chan EXCEPT ![t] = 0]
  /\ cmd' = [cmd EXCEPT ![t] = <<>>]
  /\ ret' = [ret EXCEPT ![t] = OK]
  /\ hist' = [hist EXCEPT ![t] =
                [FreshHist EXCEPT
                   !.prevTO = (op[t] = "read" /\ hist[t].how = "timeout"),
                   !.prevINT = (op[t] = "read" /\ hist[t].how = "interrupted")]]
  /\ UNCHANGED <<jiffies, product, wstart, buffer, buffer_lock,
                 status_report_received, fw_version_processed, sensorVars,
                 firmware_version, max_speed_rpm, updated, ev_pc, ev_data, ev_size,
                 ncalls, nreports>>

\* ------------------------------------------------------------------ probe
\* waterforce_probe, lines 461-471: derive max_speed_rpm and return 0
waterforce_probe_caps(prod) ==
  /\ pc[Probe] = "caps"
  /\ product' = prod
  /\ max_speed_rpm' = MaxSpeedRpm(firmware_version, prod)
  /\ pc' = [pc EXCEPT ![Probe] = "ready"]
  /\ ret' = [ret EXCEPT ![Probe] = OK]
  /\ UNCHANGED <<jiffies, op, val, chan, cmd, wstart, buffer,
                 buffer_lock, status_report_received, fw_version_processed,
                 sensorVars, firmware_version, updated, ev_pc, ev_data, ev_size, ncalls, nreports, hist>>

\* ------------------------------------------------------ the input callback
\* mutant: a wake-up that is not latched (the counter left as it was)
complete_lost(done) == done

\* complete(x), lines 345 and 361: x->done++; a wait that starts later
\* finds it
complete(done) == done + 1

\* the highest offset waterforce_raw_event reads is WATERFORCE_TEMP_SENSOR
DataLength == WATERFORCE_TEMP_SENSOR + 1

\* what the memory behind data held before a report was stored in it: an
\* earlier report, or zeros
StaleBuffers == {StatusReport2, [i \in 1..DataLength |-> 0]}

\* waterforce_raw_event never reads its size argument: data[off] with
\* off >= size is whatever lies behind the size delivered bytes d.  The
\* possible contents of that memory, up to the highest offset read:
Beyond(d) ==
  IF Len(d) >= DataLength
  THEN {<<>>}
  ELSE {SubSeq(b, Len(d) + 1, DataLength) : b \in StaleBuffers}

\* waterforce_raw_event, lines 336-361: everything up to and including
\* complete(&status_report_received); d is the size bytes delivered
waterforce_raw_event(d) ==
  /\ Alive
  /\ ev_pc = "idle"
  /\ nreports < MaxReports
  /\ nreports' = nreports + 1
  /\ ev_data' = d
  /\ ev_size' = Len(d)
  /\ \E m \in Beyond(d) :
       LET data == d \o m IN
       IF IsFirmwareReport(data)
       THEN /\ firmware_version' = FirmwareVersion(data)
            /\ fw_version_processed' = complete(fw_version_processed)
            /\ UNCHANGED <<sensorVars, status_report_received, ev_pc, hist>>
       ELSE IF ~IsStatusReport(data)
       THEN UNCHANGED <<firmware_version, fw_version_processed, sensorVars,
                        status_report_received, ev_pc, hist>>
       ELSE /\ temp_input' = DecodeTemp(data)
            /\ speed_input' = DecodeSpeed(data)
            /\ duty_input' = DecodeDuty(data)
            /\ status_report_received' = complete(status_report_received)
            /\ ev_pc' = "signalled"
            /\ hist' = [p \in Procs |->
                          IF InStatus(p)
                          THEN [hist[p] EXCEPT !.sig = TRUE,
                                               !.early = @ \/ pc[p] # "wait"]
                          ELSE hist[p]]
            /\ UNCHANGED <<firmware_version, fw_version_processed>>
  /\ UNCHANGED <<jiffies, product, pc, op, val, chan, cmd, ret, wstart,
                 buffer, buffer_lock, max_speed_rpm, updated, ncalls>>

\* waterforce_raw_event, lines 363-365: priv->updated = jiffies; return
raw_event_updated ==
  /\ Alive
  /\ ev_pc = "signalled"
  /\ updated' = jiffies
  /\ ev_pc' = "idle"
  /\ UNCHANGED <<jiffies, product, pc, op, val, chan, cmd, ret, wstart,
                 buffer, buffer_lock, status_report_received,
                 fw_version_processed, sensorVars, firmware_version,
                 max_speed_rpm, ev_data, ev_size, ncalls, nreports, hist>>

\* ------------------------------------------------------------------ clock
Tick ==
  /\ Alive
  /\ jiffies < InitialJiffies + MaxTicks
  /\ jiffies' = jiffies + 1
  /\ UNCHANGED <<product, pc, op, val, chan, cmd, ret, wstart, buffer,
                 buffer_lock, status_report_received, fw_version_processed,
                 sensorVars, firmware_version, max_speed_rpm, updated, ev_pc,
                 ev_data, ev_size, ncalls, nreports, hist>>

\* Sensor path from probe on: the probe, two readers, the input callback
\* and the clock.
Next ==
  \/ \E t \in Threads : waterforce_read(t)
  \/ \E t \in Threads : waterforce_get_status(t)
  \/ \E p \in Procs : write_expanded_lock(p)
  \/ \E p \in Procs : write_expanded_memcpy(p)
  \/ \E p \in Procs, ok \in BOOLEAN : write_expanded_output(p, ok)
  \/ \E p \in Procs : wait_done(p)
  \/ \E p \in Procs : wait_timeout(p)
  \/ \E t \in Threads, s \in Sensors : waterforce_read_value(t, s)
  \/ \E t \in Threads : call_return(t)
  \/ \E prod \in {USB_PRODUCT_ID_WATERFORCE_1} : waterforce_probe_caps(prod)
  \/ \E d \in Reports : waterforce_raw_event(d)
  \/ raw_event_updated
  \/ Tick

Spec == Init /\ [][Next]_vars

\* The device as waterforce_probe leaves it when it returns 0 and no hwmon
\* call was made meanwhile: the firmware query written, the reply 1.4
\* decoded and consumed, max_speed_rpm derived.  It is the state the
\* behaviour  write_expanded_lock(Probe), write_expanded_memcpy(Probe),
\* write_expanded_output(Probe, TRUE), waterforce_raw_event(FirmwareReport14),
\* wait_done(Probe), waterforce_probe_caps(USB_PRODUCT_ID_WATERFORCE_1)
\* of Spec ends in.
ReadyDevice(n) ==
  /\ jiffies = InitialJiffies
  /\ product = USB_PRODUCT_ID_WATERFORCE_1
  /\ pc = [p \in Procs |-> IF p = Probe THEN "ready" ELSE "idle"]
  /\ op = [p \in Procs |-> IF p = Probe THEN "fw" ELSE "none"]
  /\ val = [p \in Procs |-> 0]
  /\ chan = [p \in Procs |-> 0]
  /\ cmd = [p \in Procs |-> IF p = Probe THEN get_firmware_ver_cmd ELSE <<>>]
  /\ ret = [p \in Procs |-> OK]
  /\ wstart = [p \in Procs |-> 0]
  /\ buffer = [Memset(0) EXCEPT
                 !.head = Memcpy(@, get_firmware_ver_cmd, GET_FIRMWARE_VER_CMD_LENGTH)]
  /\ buffer_lock = Free
  /\ status_report_received = 0
  /\ fw_version_processed = 0
  /\ temp_input = 0
  /\ speed_input = <<0, 0>>
  /\ duty_input = <<0, 0>>
  /\ firmware_version = FirmwareVersion(FirmwareReport14)
  /\ max_speed_rpm = MaxSpeedRpm(FirmwareVersion(FirmwareReport14),
                                 USB_PRODUCT_ID_WATERFORCE_1)
  /\ updated = jiffies - STATUS_VALIDITY * HZ
  /\ ev_pc = "idle"
  /\ ev_data = FirmwareReport14
  /\ ev_size = Len(FirmwareReport14)
  /\ ncalls = 0
  /\ nreports = n
  /\ hist = [p \in Procs |->
               IF p = Probe
               THEN [FreshHist EXCEPT !.nwr = 1, !.how = "woken"]
               ELSE FreshHist]


InitReady == ReadyDevice(1)

\* Sensor path of a ready device: two readers, the input callback, the clock.
NextSensor ==
  \/ \E t \in Threads : waterforce_read(t)
  \/ \E t \in Threads : waterforce_get_status(t)
  \/ \E p \in Procs : write_expanded_lock(p)
  \/ \E p \in Procs : write_expanded_memcpy(p)
  \/ \E p \in Procs, ok \in BOOLEAN : write_expanded_output(p, ok)
  \/ \E p \in Procs : wait_done(p)
  \/ \E p \in Procs : wait_timeout(p)
  \/ \E t \in Threads, s \in Sensors : waterforce_read_value(t, s)
  \/ \E t \in Threads : call_return(t)
  \/ \E d \in Reports : waterforce_raw_event(d)
  \/ raw_event_updated
  \/ Tick

SpecSensor == InitReady /\ [][NextSensor]_vars

\* every sensor a read can ask for
AllSensors == {<<"temp", 0>>, <<"fan", 0>>, <<"fan", 1>>, <<"pwm", 0>>, <<"pwm", 1>>}

\* the reports of the decode specification
DecodeReports == {StatusReport1, StatusReport2}

\* The ready device of InitReady, the reports counted from here on.
InitDecode == ReadyDevice(0)

\* Decode and read: two readers of any sensor on a ready device, the input
\* callback with status reports, the clock.
NextDecode ==
  \/ \E t \in Threads : waterforce_read(t)
  \/ \E t \in Threads : waterforce_get_status(t)
  \/ \E p \in Procs : write_expanded_lock(p)
  \/ \E p \in Procs : write_expanded_memcpy(p)
  \/ \E p \in Procs, ok \in BOOLEAN : write_expanded_output(p, ok)
  \/ \E p \in Procs : wait_done(p)
  \/ \E p \in Procs : wait_timeout(p)
  \/ \E t \in Threads, s \in AllSensors : waterforce_read_value(t, s)
  \/ \E t \in Threads : call_return(t)
  \/ \E d \in DecodeReports : waterforce_raw_event(d)
  \/ raw_event_updated
  \/ Tick

SpecDecode == InitDecode /\ [][NextDecode]_vars

\* the sizes of the length specification: below 2 (the opcode), below 4
\* (the firmware reply), below DataLength (the status reply), and DataLength
Lengths == {1, 3, DataLength - 1, DataLength}

\* the reports of the length specification: a status and a firmware reply,
\* each cut to every size of Lengths
LengthReports ==
  {SubSeq(r, 1, n) : r \in {StatusReport1, FirmwareReport13}, n \in Lengths}

\* Inbound reports of any size on a ready device: two readers, the input
\* callback, the clock.
NextLength ==
  \/ \E t \in Threads : waterforce_read(t)
  \/ \E t \in Threads : waterforce_get_status(t)
  \/ \E p \in Procs : write_expanded_lock(p)
  \/ \E p \in Procs : write_expanded_memcpy(p)
  \/ \E p \in Procs, ok \in BOOLEAN : write_expanded_output(p, ok)
  \/ \E p \in Procs : wait_done(p)
  \/ \E p \in Procs : wait_timeout(p)
  \/ \E t \in Threads : waterforce_read_value(t, <<"temp", 0>>)
  \/ \E t \in Threads : call_return(t)
  \/ \E d \in LengthReports : waterforce_raw_event(d)
  \/ raw_event_updated
  \/ Tick

SpecLength == InitDecode /\ [][NextLength]_vars

\* --------------------------------------------------- a second device
\* status_report_received is one completion for the whole driver (line 36),
\* so the callback and the readers of any other bound device act on it too.
\* Of a second device only these two accesses are modelled; its own fields
\* live in its own waterforce_data.

\* waterforce_raw_event of the other device, lines 355-361: it decodes a
\* status report into its own priv and calls complete(&status_report_received)
other_device_raw_event ==
  /\ Alive
  /\ status_report_received < MaxReports
  /\ status_report_received' = status_report_received + 1
  /\ UNCHANGED <<jiffies, product, pc, op, val, chan, cmd, ret, wstart,
                 buffer, buffer_lock, fw_version_processed, sensorVars,
                 firmware_version, max_speed_rpm, updated, ev_pc, ev_data, ev_size,
                 ncalls, nreports, hist>>

\* waterforce_get_status of the other device, line 116:
\* reinit_completion(&status_report_received)
other_device_get_status ==
  /\ Alive
  /\ status_report_received' = 0
  /\ UNCHANGED <<jiffies, product, pc, op, val, chan, cmd, ret, wstart,
                 buffer, buffer_lock, fw_version_processed, sensorVars,
                 firmware_version, max_speed_rpm, updated, ev_pc, ev_data, ev_size,
                 ncalls, nreports, hist>>

\* Two bound devices: the sensor path of this device and the accesses of the
\* other one to the shared completion.
NextTwoDevices ==
  \/ \E t \in Threads : waterforce_read(t)
  \/ \E t \in Threads : waterforce_get_status(t)
  \/ \E p \in Procs : write_expanded_lock(p)
  \/ \E p \in Procs : write_expanded_memcpy(p)
  \/ \E p \in Procs, ok \in BOOLEAN : write_expanded_output(p, ok)
  \/ \E p \in Procs : wait_done(p)
  \/ \E p \in Procs : wait_timeout(p)
  \/ \E t \in Threads, s \in Sensors : waterforce_read_value(t, s)
  \/ \E t \in Threads : call_return(t)
  \/ \E d \in Reports : waterforce_raw_event(d)
  \/ raw_event_updated
  \/ other_device_raw_event
  \/ other_device_get_status
  \/ Tick

SpecTwoDevices == InitReady /\ [][NextTwoDevices]_vars

\* The clock as a pending timeout sees it: time passes while some wait has
\* not reached its timeout (the timer of wait_for_completion_timeout always
\* expires); the number of waits bounds the clock.
TickFair ==
  /\ Alive
  /\ \E p \in Procs : pc[p] = "wait" /\ jiffies - wstart[p] < WaitTimeout
  /\ jiffies' = jiffies + 1
  /\ UNCHANGED <<product, pc, op, val, chan, cmd, ret, wstart, buffer,
                 buffer_lock, status_report_received, fw_version_processed,
                 sensorVars, firmware_version, max_speed_rpm, updated, ev_pc,
                 ev_data, ev_size, ncalls, nreports, hist>>

\* the steps process p takes by itself once it is in a call
ProcStep(p) ==
  \/ p \in Threads /\ waterforce_get_status(p)
  \/ write_expanded_lock(p)
  \/ write_expanded_memcpy(p)
  \/ \E ok \in BOOLEAN : write_expanded_output(p, ok)
  \/ wait_done(p)
  \/ wait_timeout(p)
  \/ p \in Threads /\ waterforce_read_value(p, <<"temp", 0>>)
  \/ p = Probe /\ waterforce_probe_caps(USB_PRODUCT_ID_WATERFORCE_1)

\* Every operation from probe on: probe, two callers that read and write,
\* the input callback (which may stay silent), the clock of the timeouts.
NextFair ==
  \/ \E t \in Threads : waterforce_read(t)
  \/ \E t \in Threads : waterforce_set_cpu_temp(t, 37)
  \/ \E t \in Threads : waterforce_set_fan_speed(t, 1, 749)
  \/ \E p \in Procs : ProcStep(p)
  \/ \E t \in Threads : call_return(t)
  \/ \E d \in {FirmwareReport14, StatusReport1} : waterforce_raw_event(d)
  \/ raw_event_updated
  \/ TickFair

\* The scheduler runs every runnable thread, the mutex is handed to a
\* waiter once it is free, and timers expire; the device and the callers
\* owe nothing.
Fairness ==
  /\ \A p \in Procs : WF_vars(ProcStep(p))
  /\ WF_vars(TickFair)

SpecFair == Init /\ [][NextFair]_vars /\ Fairness

\* complete_all leaves the done counter at UINT_MAX, which no wait consumes;
\* the value is kept symbolic (nothing in the sensor path reads it)
UINT_MAX == "UINT_MAX"

\* the reports of the specification of gigabyte_waterforce.c
InterruptibleReports == {StatusReport1, OtherReport}

\* gigabyte_waterforce.c: the device as its waterforce_probe leaves it when
\* it returns 0 (product 0x7a4d, the firmware reply 1.4 decoded and
\* signalled with complete_all; the variant has no max_speed_rpm)
InitInterruptible ==
  /\ jiffies = InitialJiffies
  /\ product = USB_PRODUCT_ID_WATERFORCE_1
  /\ pc = [p \in Procs |-> IF p = Probe THEN "ready" ELSE "idle"]
  /\ op = [p \in Procs |-> IF p = Probe THEN "fw" ELSE "none"]
  /\ val = [p \in Procs |-> 0]
  /\ chan = [p \in Procs |-> 0]
  /\ cmd = [p \in Procs |-> IF p = Probe THEN get_firmware_ver_cmd ELSE <<>>]
  /\ ret = [p \in Procs |-> OK]
  /\ wstart = [p \in Procs |-> 0]
  /\ buffer = [Memset(0) EXCEPT
                 !.head = Memcpy(@, get_firmware_ver_cmd, GET_FIRMWARE_VER_CMD_LENGTH)]
  /\ buffer_lock = Free
  /\ status_report_received = 0
  /\ fw_version_processed = UINT_MAX
  /\ temp_input = 0
  /\ speed_input = <<0, 0>>
  /\ duty_input = <<0, 0>>
  /\ firmware_version = FirmwareVersion(FirmwareReport14)
  /\ max_speed_rpm = 0
  /\ updated = jiffies - STATUS_VALIDITY * HZ
  /\ ev_pc = "idle"
  /\ ev_data = FirmwareReport14
  /\ ev_size = Len(FirmwareReport14)
  /\ ncalls = 0
  /\ nreports = 1
  /\ hist = [p \in Procs |->
               IF p = Probe
               THEN [FreshHist EXCEPT !.nwr = 1, !.how = "woken"]
               ELSE FreshHist]

\* gigabyte_waterforce.c, sensor path of a ready device: as NextSensor, with
\* the interruptible wait of its waterforce_get_status
NextInterruptible ==
  \/ \E t \in Threads : waterforce_read(t)
  \/ \E t \in Threads : waterforce_get_status(t)
  \/ \E p \in Procs : write_expanded_lock(p)
  \/ \E p \in Procs : write_expanded_memcpy(p)
  \/ \E p \in Procs, ok \in BOOLEAN : write_expanded_output(p, ok)
  \/ \E p \in Procs : wait_done(p)
  \/ \E p \in Procs : wait_timeout(p)
  \/ \E t \in Threads : wait_interrupted(t)
  \/ \E t \in Threads, s \in Sensors : waterforce_read_value(t, s)
  \/ \E t \in Threads : call_return(t)
  \/ \E d \in InterruptibleReports : waterforce_raw_event(d)
  \/ raw_event_updated
  \/ Tick

SpecInterruptible == InitInterruptible /\ [][NextInterruptible]_vars

\* the reports of the probe specification: both firmware replies, a status
\* report and an unknown one
ProbeReports == {FirmwareReport14, FirmwareReport13, StatusReport2, OtherReport}

\* Probe alone: waterforce_probe from its firmware query on, the input
\* callback with any report, the clock; no hwmon caller.
NextProbe ==
  \/ write_expanded_lock(Probe)
  \/ write_expanded_memcpy(Probe)
  \/ \E ok \in BOOLEAN : write_expanded_output(Probe, ok)
  \/ wait_done(Probe)
  \/ wait_timeout(Probe)
  \/ \E prod \in waterforce_table : waterforce_probe_caps(prod)
  \/ \E d \in ProbeReports : waterforce_raw_event(d)
  \/ raw_event_updated
  \/ Tick

SpecProbe == Init /\ [][NextProbe]_vars

\* Write path: the probe and two callers that read and write, the firmware
\* replies of the input callback, the clock.
NextWrite ==
  \/ \E t \in Threads : waterforce_read(t)
  \/ \E t \in Threads : waterforce_get_status(t)
  \/ \E p \in Procs : write_expanded_lock(p)
  \/ \E p \in Procs : write_expanded_memcpy(p)
  \/ \E p \in Procs, ok \in BOOLEAN : write_expanded_output(p, ok)
  \/ \E p \in Procs : wait_done(p)
  \/ \E p \in Procs : wait_timeout(p)
  \/ \E t \in Threads, v \in TempInputs : waterforce_set_cpu_temp(t, v)
  \/ \E t \in Threads, ch \in Channels, v \in RpmInputs :
       waterforce_set_fan_speed(t, ch, v)
  \/ \E t \in Threads : call_return(t)
  \/ \E prod \in waterforce_table : waterforce_probe_caps(prod)
  \/ \E d \in WriteReports : waterforce_raw_event(d)
  \/ Tick

SpecWrite == Init /\ [][NextWrite]_vars

\* =================================================================== claims
\* the opcode (bytes 0-1) of a report, and the opcodes of the protocol table
Opcode(d) == <<At(d, 0), At(d, 1)>>
StatusOpcode == <<153, 218>>
FirmwareOpcode == <<153, 214>>
Window == STATUS_VALIDITY * HZ

\* a reader that has returned from its call
Returned(t) == op[t] = "read" /\ pc[t] = "ret"

\* C1: at most one status request is outstanding per device: between a
\* reader's reinit_completion (beginWait) and the end of its wait no other
\* reader re-arms the completion or writes a status query.
C1_OneStatusRequestOutstanding ==
  Cardinality({t \in Threads : InStatus(t)}) <= 1

\* C2: a reader woken by the status completion observes the timestamp of the
\* report that woke it: the callback has written ->updated before it
\* signalled.
C2_WokenReaderSeesTimestamp ==
  \A t \in Threads :
    (op[t] = "read" /\ hist[t].how = "woken") => hist[t].stamped

C4_FreshReadNoWrite ==
  \A t \in Threads :
    (op[t] = "read" /\ hist[t].age0 < Window) =>
      /\ pc[t] \in {"load", "ret"}
      /\ hist[t].nwr = 0
      /\ hist[t].nre = 0
      /\ pc[t] = "ret" => (ret[t] = OK /\ hist[t].out # NoOut)

C4_Witness ==
  \E t \in Threads :
    /\ Returned(t)
    /\ hist[t].age0 < Window
    /\ updated > InitialJiffies - Window
    /\ ret[t] = OK
    /\ hist[t].nwr = 0

\* C5: a request whose wait times out returns -ENODATA (read and firmware
\* query alike), and so does every refresh during which no status report was
\* signalled; no step other than the decode of a status report changes
\* the sensor fields or the timestamp, so a call during which no status
\* report arrives leaves them as they were; and the completion is left
\* ready: the request a reader makes after a timed-out one does not time
\* out once a status report has been signalled after its reinit_completion
\* (it being the only outstanding request).
C5_TimeoutState ==
  /\ \A t \in Threads :
       (Returned(t) /\ hist[t].how = "timeout") =>
         /\ ret[t] = ENODATA
         /\ (hist[t].prevTO /\ ~hist[t].overlap) => ~hist[t].sig
  /\ \A t \in Threads :
       (Returned(t) /\ hist[t].nre = 1 /\ ~hist[t].sig) => ret[t] = ENODATA
  /\ hist[Probe].how = "timeout" => (pc[Probe] = "failed" /\ ret[Probe] = ENODATA)
  /\ \A p \in Procs : hist[p].how = "timeout" => pc[p] \in {"ret", "failed"}

C5_CacheFrame ==
  (Snapshot' # Snapshot \/ updated' # updated) =>
    \/ nreports' = nreports + 1 /\ Opcode(ev_data') = StatusOpcode
    \/ ev_pc = "signalled" /\ ev_pc' = "idle"

C5_TimeoutNoData == [](C5_TimeoutState) /\ [][C5_CacheFrame]_vars

C5_Witness ==
  \E t \in Threads :
    /\ Returned(t)
    /\ hist[t].prevTO
    /\ hist[t].how = "woken"
    /\ hist[t].sig
    /\ ret[t] = OK

\* C6: a report with the firmware opcode 0x99 0xD6 completes the firmware
\* completion once and leaves the status completion alone; a report with the
\* status opcode 0x99 0xDA completes the status completion once and leaves
\* the firmware completion alone; nothing else completes either.
C6_Step ==
  /\ (nreports' = nreports + 1 /\ Opcode(ev_data') = FirmwareOpcode) =>
       /\ fw_version_processed' = fw_version_processed + 1
       /\ status_report_received' = status_report_received
  /\ (nreports' = nreports + 1 /\ Opcode(ev_data') = StatusOpcode) =>
       /\ status_report_received' = status_report_received + 1
       /\ fw_version_processed' = fw_version_processed
  /\ fw_version_processed' > fw_version_processed =>
       (nreports' = nreports + 1 /\ Opcode(ev_data') = FirmwareOpcode)
  /\ status_report_received' > status_report_received =>
       (nreports' = nreports + 1 /\ Opcode(ev_data') = StatusOpcode)

C6_Correlation == [][C6_Step]_vars

C6_Witness ==
  /\ ev_data # NoReport
  /\ Opcode(ev_data) = FirmwareOpcode
  /\ status_report_received = 0
  /\ fw_version_processed > 0
  /\ \E t \in Threads : pc[t] = "wait"

\* C7: a report whose opcode is neither the status nor the firmware opcode
\* changes no sensor field, not the timestamp, not the firmware information,
\* and completes nothing: every waiter keeps waiting and no call fails.
C7_Step ==
  (nreports' = nreports + 1 /\ Opcode(ev_data') \notin {StatusOpcode, FirmwareOpcode}) =>
    UNCHANGED <<temp_input, speed_input, duty_input, updated, firmware_version,
                max_speed_rpm, status_report_received, fw_version_processed,
                pc, ret, ev_pc>>

C7_UnknownReportIgnored == [][C7_Step]_vars

C7_Witness ==
  /\ ev_data # NoReport
  /\ Opcode(ev_data) \notin {StatusOpcode, FirmwareOpcode}
  /\ status_report_received = 0
  /\ \E t \in Threads : pc[t] = "wait"

\* p is between mutex_lock and mutex_unlock
InCritical(p) == pc[p] \in {"memcpy", "output"}

RpmInRange(t) == 750 <= val[t] /\ val[t] <= hist[t].lim

C9_RotorTarget ==
  \A t \in Threads :
    op[t] = "rpm" =>
      /\ pc[t] \in {"lock", "memcpy", "output"} => RpmInRange(t)
      /\ pc[t] = "output" =>
           /\ \A off \in {5, 8, 11, 14} : get_unaligned_be16(buffer.head, off) = val[t]
           /\ <<At(buffer.head, 2), At(buffer.head, 3)>> =
                (IF chan[t] = 0 THEN <<1, 1>> ELSE <<4, 2>>)
           /\ <<At(buffer.head, 0), At(buffer.head, 1)>> = <<153, 230>>
      /\ pc[t] = "ret" =>
           IF RpmInRange(t)
           THEN ret[t] # EINVAL /\ hist[t].nwr = 1
           ELSE ret[t] = EINVAL /\ hist[t].nwr = 0

C9_Witness ==
  \E t \in Threads :
    /\ op[t] = "rpm"
    /\ pc[t] = "output"
    /\ chan[t] = 1
    /\ val[t] = 2800

\* C10: a set_cpu_temp call with 0 <= value <= 255 hands over a report with
\* opcode 99 E0 whose byte 3 reads back as the value; any other value
\* returns -EINVAL and hands nothing to the transport.
TempInRange(t) == 0 <= val[t] /\ val[t] <= 255

C10_ReferenceTemperature ==
  \A t \in Threads :
    op[t] = "temp" =>
      /\ pc[t] \in {"lock", "memcpy", "output"} => TempInRange(t)
      /\ pc[t] = "output" =>
           /\ At(buffer.head, 3) = val[t]
           /\ <<At(buffer.head, 0), At(buffer.head, 1)>> = <<153, 224>>
      /\ pc[t] = "ret" =>
           IF TempInRange(t)
           THEN ret[t] # EINVAL /\ hist[t].nwr = 1
           ELSE ret[t] = EINVAL /\ hist[t].nwr = 0

C10_Witness ==
  \E t \in Threads :
    /\ op[t] = "temp"
    /\ pc[t] = "output"
    /\ val[t] = 255

\* the probe takes the step of lines 461-471 and returns 0
ProbeSucceeds == pc[Probe] = "caps" /\ pc'[Probe] = "ready"

\* C11: when probe returns 0 it has set max_speed_rpm to 3200 if the decoded
\* firmware version is 14 or the product is 0x7a53, and to 2800 for every
\* other version and product; from then on the ceiling is one of the two.
C11_Step ==
  ProbeSucceeds =>
    max_speed_rpm' =
      IF firmware_version' = 14 \/ product' = 31315 THEN 3200 ELSE 2800

C11_CapabilityDerivation ==
  [](pc[Probe] = "ready" => max_speed_rpm \in {2800, 3200}) /\ [][C11_Step]_vars

C11_Witness ==
  /\ pc[Probe] = "ready"
  /\ firmware_version = 13
  /\ product = 31315
  /\ max_speed_rpm = 3200
  /\ ev_data = FirmwareReport13

\* a status report has been decoded since probe set ->updated (line 415):
\* the callback is past its decode, or it has stored a later timestamp
StatusDecoded ==
  ev_pc = "signalled" \/ updated > InitialJiffies - STATUS_VALIDITY * HZ

\* C12: on a fresh device no read returns the snapshot probe left behind
\* (the zeroed fields): a read that loads a sensor field and returns 0 does
\* so only after a status report has been decoded, at every instant from
\* registration on, the tick of probe's line 415 included.
C12_NoUndecodedSnapshot ==
  \A t \in Threads :
    (op[t] = "read" /\ hist[t].out # NoOut) => StatusDecoded

\* the step in which t's wait ends by a signal
Interrupted(t) == pc[t] = "wait" /\ hist'[t].how = "interrupted"

\* C13: a wait ended by a signal is treated as a timed-out one: the reader
\* returns -ENODATA; the step changes neither the sensor fields, the
\* timestamp nor a completion; and the request the reader makes next is
\* valid: once a status report is signalled after its reinit_completion (it
\* being the only outstanding request) it does not time out.
C13_State ==
  \A t \in Threads :
    /\ (Returned(t) /\ hist[t].how = "interrupted") => ret[t] = ENODATA
    /\ hist[t].how = "interrupted" => pc[t] = "ret"
    /\ (Returned(t) /\ hist[t].how = "timeout" /\ hist[t].prevINT /\ ~hist[t].overlap)
         => ~hist[t].sig

C13_Step ==
  \A t \in Threads :
    Interrupted(t) =>
      /\ UNCHANGED <<temp_input, speed_input, duty_input, updated,
                     status_report_received, fw_version_processed>>
      /\ ret'[t] = ENODATA

C13_InterruptionIsNoData == [](C13_State) /\ [][C13_Step]_vars

C13_Witness ==
  \E t \in Threads :
    /\ Returned(t)
    /\ hist[t].prevINT
    /\ hist[t].how = "woken"
    /\ hist[t].sig
    /\ ret[t] = OK
    /\ hist[t].out # NoOut

\* t's call is being served: it holds the transport, waits for the reply,
\* loads a sensor field, or has returned 0
Served(t) ==
  \/ pc[t] \in {"memcpy", "output", "wait", "load"}
  \/ pc[t] = "ret" /\ ret[t] = OK

\* C14: reads and writes are served only while the device is Ready: none
\* while the firmware query of probe is in flight, none after it failed.
C14_ServedOnlyWhenReady ==
  \A t \in Threads : Served(t) => pc[Probe] = "ready"

\* C15: a call whose transport write failed returns the transport's error,
\* a read as well as a write; -ENODATA is returned only after a wait that
\* timed out or was interrupted.
C15_TransportErrorSurfaces ==
  \A t \in Threads :
    pc[t] = "ret" =>
      /\ hist[t].how = "eio" => ret[t] = EIO
      /\ ret[t] = ENODATA => hist[t].how \in {"timeout", "interrupted"}

\* C16: once probe has returned 0, firmware_version and max_speed_rpm do
\* not change any more, and max_speed_rpm is the ceiling that belongs to the
\* stored firmware_version.
C16_Agree ==
  pc[Probe] = "ready" =>
    max_speed_rpm = IF firmware_version = 14 \/ product = 31315 THEN 3200 ELSE 2800

C16_Frozen ==
  pc[Probe] = "ready" => UNCHANGED <<firmware_version, max_speed_rpm>>

C16_FirmwareInfoSetOnce == [](C16_Agree) /\ [][C16_Frozen]_vars

\* C17: a report with the firmware opcode stores byte 2 * 10 + byte 3 as the
\* firmware version, completes the firmware completion and returns at once:
\* the sensor fields and the timestamp stay as they were and the callback
\* does not go on to the status decode, whatever the other bytes hold.
C17_Step ==
  (nreports' = nreports + 1 /\ Opcode(ev_data') = FirmwareOpcode) =>
    /\ firmware_version' = At(ev_data', 2) * 10 + At(ev_data', 3)
    /\ fw_version_processed' = fw_version_processed + 1
    /\ UNCHANGED <<temp_input, speed_input, duty_input, updated, ev_pc,
                   status_report_received>>

C17_FirmwareReply == [][C17_Step]_vars

C17_Witness ==
  /\ ev_data = FirmwareReport13
  /\ firmware_version = 13
  /\ fw_version_processed > 0
  /\ temp_input = 255000
  /\ speed_input = <<258, 772>>
  /\ duty_input = <<100, 33>>
  /\ updated > InitialJiffies
  /\ ev_pc = "idle"

\* the step in which a status report is decoded
StatusStep == nreports' = nreports + 1 /\ Opcode(ev_data') = StatusOpcode

\* the step in which t loads the sensor field it returns
LoadStep(t) == pc[t] = "load" /\ pc'[t] = "ret"

\* the fields as the claim decodes them from report d
C18_Temp(d) == At(d, 13) * 1000
C18_Speed(d) == <<At(d, 2) + 256 * At(d, 3), At(d, 5) + 256 * At(d, 6)>>
C18_Duty(d) == <<At(d, 8), At(d, 9)>>

\* the decode of a status report, and the fields being those of the status
\* report delivered last, all of them
C18_DecodeStep ==
  StatusStep =>
    /\ temp_input' = C18_Temp(ev_data')
    /\ speed_input' = C18_Speed(ev_data')
    /\ duty_input' = C18_Duty(ev_data')

C18_LastReport ==
  (ev_data # NoReport /\ Opcode(ev_data) = StatusOpcode) =>
    /\ temp_input = C18_Temp(ev_data)
    /\ speed_input = C18_Speed(ev_data)
    /\ duty_input = C18_Duty(ev_data)

\* C18 as claimed: a status report is decoded as temperature = byte 13 *
\* 1000, speeds = the little-endian words at 2 and 5, duties = bytes 8 and
\* 9, and a read that succeeds after a decode returns exactly the decoded
\* field of the report delivered last.
C18_ReadsDecodedField ==
  \A t \in Threads :
    (LoadStep(t) /\ StatusDecoded) =>
      LET s == hist'[t].out[1]
      IN hist'[t].out[2] =
           CASE s[1] = "temp" -> temp_input
             [] s[1] = "fan" -> speed_input[s[2] + 1]
             [] s[1] = "pwm" -> duty_input[s[2] + 1]

C18_AsClaimed ==
  [](C18_LastReport) /\ [][C18_DecodeStep /\ C18_ReadsDecodedField]_vars

\* C18 amended: as claimed for the temperature and the speeds; a duty is
\* returned converted from percent to the pwm scale 0..255, rounded to the
\* closest integer.
C18_ReadsConvertedField ==
  \A t \in Threads :
    (LoadStep(t) /\ StatusDecoded) =>
      LET s == hist'[t].out[1]
      IN hist'[t].out[2] =
           CASE s[1] = "temp" -> temp_input
             [] s[1] = "fan" -> speed_input[s[2] + 1]
             [] s[1] = "pwm" -> (duty_input[s[2] + 1] * 255 + 50) \div 100

C18_StatusDecode ==
  [](C18_LastReport) /\ [][C18_DecodeStep /\ C18_ReadsConvertedField]_vars

C18_Witness ==
  \E t \in Threads :
    /\ Returned(t)
    /\ ret[t] = OK
    /\ hist[t].how = "woken"
    /\ nreports = 2
    /\ ev_data = StatusReport2
    /\ hist[t].out = <<(<<"pwm", 1>>), 84>>
    /\ speed_input = <<258, 772>>
    /\ temp_input = 255000

\* t is inside a call that has not returned yet
InCall(t) == pc[t] \notin {"idle", "ret"}

\* no call is in progress: probe has returned, and every read or write that
\* was entered has returned (for as long as the device data exists, that is
\* unless probe failed meanwhile)
Quiescent ==
  /\ pc[Probe] \in {"ready", "failed"}
  /\ \A t \in Threads : ~InCall(t) \/ ~Alive

\* C19: every call eventually returns, whether or not a report ever
\* arrives: the callers make finitely many calls, so this is to say that
\* from some point on no call is in progress any more.
C19_EveryCallReturns == <>[]Quiescent

C19_Witness ==
  \E t \in Threads :
    /\ Returned(t)
    /\ hist[t].how = "timeout"
    /\ pc[Probe] = "ready"
    /\ \E u \in Threads : op[u] \in {"temp", "rpm"} /\ pc[u] = "ret" /\ hist[u].how = "eio"

\* a step of this device's own code on the status completion: its callback
\* decodes a status report, one of its readers re-arms the completion or
\* one of its waiters consumes it
OwnCompletionStep ==
  \/ StatusStep
  \/ \E t \in Threads : pc[t] = "get_status" /\ pc'[t] = "lock"
  \/ \E t \in Threads : pc[t] = "wait" /\ pc'[t] = "load"

\* C20: the status wait of a device is its own: a reader returns from a
\* successful wait only after a status report of its own device was decoded
\* and signalled since it armed the completion, and while a reader is
\* between arming and the end of its wait only its own device's code changes
\* the completion (no report and no refresh of another device does).
C20_WokenByOwnReport ==
  \A t \in Threads :
    (op[t] = "read" /\ hist[t].how = "woken") => hist[t].sig

C20_OwnCompletion ==
  ((\E t \in Threads : InStatus(t)) /\ status_report_received' # status_report_received)
    => OwnCompletionStep

C20_PerDeviceIsolation == [](C20_WokenByOwnReport) /\ [][C20_OwnCompletion]_vars

\* C21: no wake-up is lost for a single caller.  While a reader's status
\* request is the only one outstanding, a status report signalled at any
\* point after its reinit_completion stays latched in the completion until
\* that reader's wait takes it: the wait does not time out, also when the
\* report was signalled before the reader reached
\* wait_for_completion_timeout.  The same holds for the firmware query of
\* probe: once a firmware reply has been decoded the query's wait finds the
\* completion done and does not time out.  (Between the return of
\* hid_hw_output_report and the entry into wait_for_completion_timeout the
\* reader touches no shared state, so the state "wait" stands for both
\* sides of that entry.)
C21_NoLostWakeup ==
  /\ \A t \in Threads :
       (op[t] = "read" /\ hist[t].sig /\ ~hist[t].overlap) =>
         /\ hist[t].how # "timeout"
         /\ InStatus(t) => status_report_received > 0
         /\ (Returned(t) /\ hist[t].how = "woken") => ret[t] = OK
  /\ hist[Probe].how = "timeout" =>
       (firmware_version = 0 /\ fw_version_processed = 0)
  /\ (pc[Probe] \in {"lock", "memcpy", "output", "wait"} /\ firmware_version # 0) =>
       fw_version_processed > 0

C21_Witness ==
  \E t \in Threads :
    /\ Returned(t)
    /\ hist[t].early
    /\ ~hist[t].overlap
    /\ hist[t].how = "woken"
    /\ hist[t].nwr = 1
    /\ ret[t] = OK

\* C22: every set_fan_speed report handed to the transport carries a target
\* between 750 and 3200 that is not above max_speed_rpm of the device, and
\* max_speed_rpm is 0 until probe has derived it; a set_fan_speed call
\* whose range check read max_speed_rpm as 0 returns -EINVAL and hands
\* nothing to the transport, whatever the target.
C22_RotorTargetCeiling ==
  /\ pc[Probe] # "ready" => max_speed_rpm = 0
  /\ max_speed_rpm \in {0, LOWER_MAX_RPM, DEFAULT_MAX_RPM}
  /\ \A t \in Threads :
       op[t] = "rpm" =>
         /\ pc[t] \in {"lock", "memcpy", "output"} =>
              /\ MIN_FAN_RPM <= val[t] /\ val[t] <= DEFAULT_MAX_RPM
              /\ val[t] <= max_speed_rpm
              /\ pc[Probe] = "ready"
         /\ pc[t] = "output" =>
              \A i \in 1..SET_RPM_SPEED_OFFSETS_LENGTH :
                /\ get_unaligned_be16(buffer.head, speed_cmd_offsets[i]) >= MIN_FAN_RPM
                /\ get_unaligned_be16(buffer.head, speed_cmd_offsets[i]) <= max_speed_rpm
         /\ hist[t].lim = 0 =>
              /\ pc[t] = "ret"
              /\ ret[t] = EINVAL
              /\ hist[t].nwr = 0

C22_Witness ==
  \E t \in Threads :
    /\ op[t] = "rpm"
    /\ val[t] = LOWER_MAX_RPM
    /\ pc[Probe] = "wait"
    /\ max_speed_rpm = 0
    /\ pc[t] = "ret"
    /\ ret[t] = EINVAL
    /\ hist[t].nwr = 0

\* the size a report must have for the fields its opcode makes the callback
\* decode: 2 for the opcode, 4 for a firmware reply, 14 for a status reply
NeededSize(d) ==
  IF Len(d) < 2 THEN 2
  ELSE IF Opcode(d) = FirmwareOpcode THEN FIRMWARE_VER_START_OFFSET_2 + 1
  ELSE IF Opcode(d) = StatusOpcode THEN WATERFORCE_TEMP_SENSOR + 1
  ELSE 2

TooShort(d) == Len(d) < NeededSize(d)

\* C23: an inbound report shorter than the fields it would decode (less
\* than 2 bytes, a firmware reply of less than 4, a status reply of less
\* than 14) changes no sensor field, not the firmware version, and completes
\* neither completion: the callback reads no byte at or behind its size.
C23_Step ==
  (nreports' = nreports + 1 /\ ev_size' = Len(ev_data') /\ TooShort(ev_data')) =>
    UNCHANGED <<temp_input, speed_input, duty_input, firmware_version,
                status_report_received, fw_version_processed, ev_pc>>

C23_InboundLengthSafety == [][C23_Step]_vars

====
